---- MODULE Spec2Model ----
(***************************************************************************)
(* A model of src/cpp/ndarray.cpp: an N-dimensional array whose elements   *)
(* are shared cells (std::shared_ptr<T>), with views, broadcasting,        *)
(* elementwise arithmetic and write-through assignment.                    *)
(*                                                                         *)
(* A cell is an index into heap; an array is a shape and a sequence of     *)
(* cell references.  T is int, as in main.  The scalar assignment         *)
(* template, spelled opeartor= in the source, is read as operator=.        *)
(***************************************************************************)
EXTENDS Integers, Sequences, FiniteSets, TLC

VARIABLES
    heap,   \* heap[c]: the value stored in cell c (every make_shared<T> so far)
    arrs,   \* the arrays alive in the program, in order of creation
    last,   \* the last operation: what it was applied to and how it ended
    stmts,  \* the number of statements executed that create no array
    pc      \* position of main (SpecMain); 0 in the other specifications

vars == <<heap, arrs, last, stmts, pc>>

-----------------------------------------------------------------------------
(* Bounds *)

MaxArrays == 3   \* arrays alive at once

MaxN == 2        \* arange(n): n <= MaxN

MaxDim == 2      \* full(shape): entries <= MaxDim

MaxStmts == 1    \* statements of one run that create no array

\* INT_MAX: T and the arguments of arange are int.
IntMax == 2147483647

-----------------------------------------------------------------------------
(* Sequences *)

Max(a, b) == IF a > b THEN a ELSE b

Min(a, b) == IF a < b THEN a ELSE b

RECURSIVE Flatten(_)
Flatten(ss) == IF ss = <<>> THEN <<>> ELSE Head(ss) \o Flatten(Tail(ss))

RECURSIVE Reverse(_)
Reverse(s) == IF s = <<>> THEN <<>> ELSE Append(Reverse(Tail(s)), Head(s))

Range(s) == {s[i] : i \in 1..Len(s)}

\* The null shared_ptr: no cell.
Null == 0

-----------------------------------------------------------------------------
(* Errors and results.  An operation ends "ok", with one of the three      *)
(* exceptions, or in undefined behaviour ("UB": an iterator or index past  *)
(* the end of a vector, a division by zero).                               *)

Errors == {"IndexError", "TypeError", "ValueError"}

\* How an array came to be: the operation, the arrays it was applied to, and
\* its arguments (shp: a shape argument; sel: slice arguments; lit: a scalar
\* argument).
Via(op, src, shp, sel, lit) ==
    [op |-> op, src |-> src, shp |-> shp, sel |-> sel, lit |-> lit]

NoVia == Via("new", <<>>, <<>>, <<>>, 0)

\* The result of an operation that returns an array.
Res(out, shape, data) == [out |-> out, shape |-> shape, data |-> data]

Fail(kind) == Res(kind, <<>>, <<>>)

\* Slice arguments: an int index, or a std::pair<int, int> range.
IntArg(i) == <<"i", i, 0>>

RangeArg(b, e) == <<"r", b, e>>

-----------------------------------------------------------------------------
(* Shapes and data *)

\* get_size: std::accumulate(shape, 1, multiplies)
RECURSIVE GetSize(_)
GetSize(shape) == IF shape = <<>> THEN 1 ELSE Head(shape) * GetSize(Tail(shape))

\* get_shape: the shape of a container of sub-arrays; {} when it is empty or
\* the sub-arrays disagree.
GetShape(ary) ==
    IF Len(ary) = 0 THEN <<>>
    ELSE IF \E i \in 1..Len(ary) : ary[i].shape # ary[1].shape THEN <<>>
    ELSE <<Len(ary)>> \o ary[1].shape

\* flatten_data: the sub-arrays' cell references, concatenated (the
\* shared_ptrs are copied: the cells are shared).
FlattenData(ary) == Flatten([i \in 1..Len(ary) |-> ary[i].data])

\* ndarray(): shape {0}, no cells.
DefaultArray == Res("ok", <<0>>, <<>>)

\* ndarray(std::initializer_list<ndarray>): shape_ and data_ stay empty when
\* the shape or the data comes out empty.
NestedArray(ary) ==
    LET shape == GetShape(ary)
        data == FlattenData(ary)
    IN  IF shape = <<>> THEN Res("ok", <<>>, <<>>)
        ELSE IF data = <<>> THEN Res("ok", <<>>, <<>>)
        ELSE Res("ok", shape, data)

\* resolve_index
ResolveIndex(a, index, verify) ==
    IF Len(a.shape) = 0 THEN [out |-> "IndexError", val |-> 0]
    ELSE LET dim == a.shape[1]
         IN  IF verify /\ (index < -dim \/ index >= dim)
             THEN [out |-> "IndexError", val |-> 0]
             ELSE [out |-> "ok", val |-> IF index < 0 THEN index + dim ELSE index]

\* len()
OpLen(a) ==
    IF Len(a.shape) = 0 THEN [out |-> "TypeError", val |-> 0]
    ELSE [out |-> "ok", val |-> a.shape[1]]

\* operator[]: the block of get_size(shape[1:]) cells at index * that size.
\* Taking iterators past data_.end() is undefined: the result then lists Null
\* for the references that are not there.
OpIndex(a, index) ==
    LET r == ResolveIndex(a, index, TRUE)
        shape == Tail(a.shape)
        size == GetSize(shape)
        first == r.val * size
    IN  IF r.out # "ok" THEN Fail(r.out)
        ELSE IF size < 0 \/ first + size > Len(a.data)
        THEN Res("UB", shape, [k \in 1..Max(size, 0) |->
                 IF first + k <= Len(a.data) THEN a.data[first + k] ELSE Null])
        ELSE Res("ok", shape, SubSeq(a.data, first + 1, first + size))

\* A reshape that lays the references out back to front.
OpReshapeReversed(a, new_shape) ==
    IF GetSize(a.shape) # GetSize(new_shape) THEN Fail("ValueError")
    ELSE Res("ok", new_shape, Reverse(a.data))

\* reshape
OpReshape(a, new_shape) ==
    IF GetSize(a.shape) # GetSize(new_shape) THEN Fail("ValueError")
    ELSE Res("ok", new_shape, a.data)

\* The first result that is not "ok", if any.
FirstFailure(rs) ==
    IF \E j \in 1..Len(rs) : rs[j].out # "ok"
    THEN rs[CHOOSE j \in 1..Len(rs) :
                /\ rs[j].out # "ok"
                /\ \A k \in 1..(j - 1) : rs[k].out = "ok"]
    ELSE Res("ok", <<>>, <<>>)

RECURSIVE OpSlice(_, _), SliceImpl(_, _)

\* slice_impl(std::pair<int, int>, Args...): one sub-slice per index of the
\* range, then get_shape and flatten_data; return {} is ndarray().
SliceRange(a, range, rest) ==
    LET b == ResolveIndex(a, range[2], FALSE)
        e == ResolveIndex(a, range[3], FALSE)
        begin == Max(0, b.val)
        end == Min(a.shape[1], e.val)
        slices == [j \in 1..Max(end - begin, 0) |->
                      SliceImpl(a, <<IntArg(begin + j - 1)>> \o rest)]
        bad == FirstFailure(slices)
        shape == GetShape(slices)
        data == FlattenData(slices)
    IN  IF b.out # "ok" THEN Fail(b.out)
        ELSE IF bad.out # "ok" THEN bad
        ELSE IF shape = <<>> THEN DefaultArray
        ELSE IF data = <<>> THEN DefaultArray
        ELSE Res("ok", shape, data)

\* slice_impl(): *this;  slice_impl(int, Args...): (*this)[index].slice(args...)
SliceImpl(a, args) ==
    IF args = <<>> THEN Res("ok", a.shape, a.data)
    ELSE IF Head(args)[1] = "i"
    THEN LET r == OpIndex(a, Head(args)[2])
         IN  IF r.out # "ok" THEN r ELSE OpSlice(r, Tail(args))
    ELSE SliceRange(a, Head(args), Tail(args))

\* slice
OpSlice(a, args) ==
    IF Len(args) > Len(a.shape) THEN Fail("IndexError")
    ELSE SliceImpl(a, args)

-----------------------------------------------------------------------------
(* Broadcasting *)

\* An expansion that repeats nothing.
ExpandDataOnce(old_data, n, k) == [ub |-> FALSE, data |-> old_data]

\* expand_data: every group of n references repeated k times.  The loop steps
\* an iterator by n until it equals end(): with references to expand, it
\* runs past the end when n does not divide their number or n < 0, and never
\* ends when n = 0 (ub).
ExpandData(old_data, n, k) ==
    IF old_data = <<>> THEN [ub |-> FALSE, data |-> <<>>]
    ELSE IF n <= 0 \/ Len(old_data) % n # 0 THEN [ub |-> TRUE, data |-> <<>>]
    ELSE [ub |-> FALSE,
          data |-> Flatten([g \in 1..(Len(old_data) \div n) |->
                      Flatten([i \in 1..Max(k, 0) |->
                          SubSeq(old_data, (g - 1) * n + 1, g * n)])])]

\* One axis pair of braodcast's loop, trailing axes first; st.k axes are done.
BroadcastStep(lshape, rshape, is_lhs_mutable, st) ==
    LET ldim == IF st.k < Len(lshape) THEN lshape[Len(lshape) - st.k] ELSE 1
        rdim == IF st.k < Len(rshape) THEN rshape[Len(rshape) - st.k] ELSE 1
        re == ExpandData(st.rdata, st.rsize, ldim)
        le == ExpandData(st.ldata, st.lsize, rdim)
    IN  IF ldim = rdim
        THEN [st EXCEPT !.k = @ + 1, !.lsize = @ * ldim, !.rsize = @ * rdim,
                        !.shape = Append(@, ldim)]
        ELSE IF rdim = 1
        THEN [st EXCEPT !.k = @ + 1, !.lsize = @ * ldim, !.rsize = @ * ldim,
                        !.shape = Append(@, ldim),
                        !.rdata = re.data, !.ub = re.ub]
        ELSE IF is_lhs_mutable /\ ldim = 1
        THEN [st EXCEPT !.k = @ + 1, !.lsize = @ * rdim, !.rsize = @ * rdim,
                        !.shape = Append(@, rdim),
                        !.ldata = le.data, !.ub = le.ub]
        ELSE [st EXCEPT !.ok = FALSE]

RECURSIVE BroadcastLoop(_, _, _, _)
BroadcastLoop(lshape, rshape, is_lhs_mutable, st) ==
    IF ~st.ok \/ st.ub THEN st
    ELSE IF st.k >= Len(lshape) /\ st.k >= Len(rshape)
    THEN [st EXCEPT !.shape = Reverse(@)]
    ELSE BroadcastLoop(lshape, rshape, is_lhs_mutable,
                       BroadcastStep(lshape, rshape, is_lhs_mutable, st))

\* braodcast: ok (the bool it returns), the two expanded data and the shape.
Braodcast(lshape, rshape, is_lhs_mutable, ldata, rdata) ==
    BroadcastLoop(lshape, rshape, is_lhs_mutable,
        [k |-> 0, lsize |-> 1, rsize |-> 1, ldata |-> ldata, rdata |-> rdata,
         shape |-> <<>>, ok |-> TRUE, ub |-> FALSE])

-----------------------------------------------------------------------------
(* Arithmetic and assignment *)

Abs(x) == IF x < 0 THEN -x ELSE x

\* int division truncates toward zero.
TruncDiv(x, y) ==
    IF (x < 0) = (y < 0) THEN Abs(x) \div Abs(y) ELSE -(Abs(x) \div Abs(y))

Ops == {"add", "sub", "mul", "div"}

\* The lambdas of operator_impl.
ApplyOp(op, x, y) ==
    CASE op = "add" -> x + y
      [] op = "sub" -> x - y
      [] op = "mul" -> x * y
      [] op = "div" -> TruncDiv(x, y)

\* operator_impl, up to the values of the cells it allocates: one per
\* reference of the expanded lhs.  Reading rdata[i] past its end, and x / 0,
\* are undefined: the values then hold g where a read or a quotient is
\* undefined (more: the loop can run on with g).
OperatorImpl(lhs, rhs, op, h, g) ==
    LET b == Braodcast(lhs.shape, rhs.shape, TRUE, lhs.data, rhs.data)
        undef(i) == \/ i > Len(b.rdata)
                    \/ op = "div" /\ h[b.rdata[i]] = 0
    IN  IF b.ub
        THEN [out |-> "UB", shape |-> <<>>, vals |-> <<>>, more |-> FALSE]
        ELSE IF ~b.ok
        THEN [out |-> "ValueError", shape |-> <<>>, vals |-> <<>>, more |-> FALSE]
        ELSE [out |-> IF \E i \in 1..Len(b.ldata) : undef(i) THEN "UB" ELSE "ok",
              shape |-> b.shape,
              vals |-> [i \in 1..Len(b.ldata) |->
                          IF undef(i) THEN g
                          ELSE ApplyOp(op, h[b.ldata[i]], h[b.rdata[i]])],
              more |-> TRUE]

\* The loop of operator=: *data_[i] = *rdata[i], i ascending, from the i-th
\* reference on.  stop: the run ends at the first read past the end of rdata;
\* otherwise such a read yields g.
RECURSIVE AssignLoop(_, _, _, _, _, _, _)
AssignLoop(h, data, rdata, i, written, stop, g) ==
    IF i > Len(data) THEN [heap |-> h, written |-> written]
    ELSE IF i > Len(rdata) /\ stop THEN [heap |-> h, written |-> written]
    ELSE LET v == IF i > Len(rdata) THEN g ELSE h[rdata[i]]
         IN  AssignLoop([h EXCEPT ![data[i]] = v], data, rdata, i + 1,
                        Append(written, v), stop, g)

\* An assignment that writes as far as rhs's references go before it learns
\* that the shapes do not broadcast.
OpAssignThenCheck(target, rhs, h, stop, g) ==
    LET b == Braodcast(target.shape, rhs.shape, FALSE, target.data, rhs.data)
        run == AssignLoop(h, target.data, b.rdata, 1, <<>>, stop, g)
        part == AssignLoop(h, target.data, rhs.data, 1, <<>>, TRUE, g)
    IN  IF b.ub THEN [out |-> "UB", heap |-> h, written |-> <<>>]
        ELSE IF ~b.ok THEN [out |-> "ValueError", heap |-> part.heap, written |-> <<>>]
        ELSE [out |-> IF Len(b.rdata) < Len(target.data) THEN "UB" ELSE "ok",
              heap |-> run.heap, written |-> run.written]

\* operator=(const ndarray &): broadcast rhs into this shape, then write
\* every cell of data_.  written: the values as the loop wrote them.
OpAssign(target, rhs, h, stop, g) ==
    LET b == Braodcast(target.shape, rhs.shape, FALSE, target.data, rhs.data)
        run == AssignLoop(h, target.data, b.rdata, 1, <<>>, stop, g)
    IN  IF b.ub THEN [out |-> "UB", heap |-> h, written |-> <<>>]
        ELSE IF ~b.ok THEN [out |-> "ValueError", heap |-> h, written |-> <<>>]
        ELSE [out |-> IF Len(b.rdata) < Len(target.data) THEN "UB" ELSE "ok",
              heap |-> run.heap, written |-> run.written]

\* operator T()
OpScalarValue(a, h) ==
    IF Len(a.data) # 1 THEN [out |-> "TypeError", val |-> 0]
    ELSE [out |-> "ok", val |-> h[a.data[1]]]

-----------------------------------------------------------------------------
(* The inputs the operations are applied to *)

\* Sequences over S of length at most n.
RECURSIVE SeqsUpTo(_, _)
SeqsUpTo(S, n) ==
    IF n = 0 THEN {<<>>}
    ELSE LET shorter == SeqsUpTo(S, n - 1)
         IN  shorter \cup {Append(q, x) : q \in shorter, x \in S}

Vals == {7}

ArangeArgs == {<<0, 0>>, <<MaxN, 0>>}

FullShapes == {<<MaxDim, 0>>, <<MaxDim, MaxDim>>}

FlatLiterals == {<<7, 7>>}

\* reshape takes any ints: a negative entry is not refused.
ReshapeShapes == {<<1>>, <<1, MaxN>>, <<MaxDim, MaxDim>>, <<-1, -MaxN>>}

IndexArgs == {-MaxDim - 1, -1, 0, MaxDim}

SliceArgLists ==
    {<<>>, <<RangeArg(0, 1)>>, <<RangeArg(-1, MaxDim + 1)>>, <<RangeArg(1, 1)>>,
     <<RangeArg(0, MaxDim + 1), IntArg(-1)>>, <<IntArg(0), RangeArg(1, MaxDim)>>,
     <<IntArg(0), IntArg(0), IntArg(0)>>}

\* The slices assigned through.
AssignArgLists ==
    {<<RangeArg(-1, MaxDim + 1)>>, <<RangeArg(0, MaxDim + 1)>>,
     <<RangeArg(-1, MaxDim + 1), RangeArg(0, 1)>>, <<IntArg(-1), IntArg(-1)>>}

\* An operand: an array of the program, or a scalar of type T (promoted by
\* ndarray::scalar to a temporary of shape {} with one new cell).
ArrOperands == {<<"arr", j>> : j \in 1..Len(arrs)}

LitOperands == {<<"lit", 9>>}

Operands == ArrOperands \cup LitOperands

OperandArray(x) ==
    IF x[1] = "arr" THEN [shape |-> arrs[x[2]].shape, data |-> arrs[x[2]].data]
    ELSE [shape |-> <<>>, data |-> <<Len(heap) + 1>>]

\* The heap with the temporary's cell, if any.
OperandHeap(x) == IF x[1] = "lit" THEN Append(heap, x[2]) ELSE heap

OperandSrc(x) == IF x[1] = "arr" THEN <<x[2]>> ELSE <<>>

-----------------------------------------------------------------------------
(* State *)

NoArr == [shape |-> <<>>, data |-> <<>>, via |-> NoVia]

NoOperand == <<"none", 0>>

\* The record of an operation: op and how it ended (out), its array
\* operands (src), its shape and slice arguments, the array it created
\* (dst), the array assigned through (tgt), the heap before the assignment
\* (pre, with the cell of a promoted scalar) and the values the assignment
\* wrote, in order (written), the operands of arithmetic and assignment,
\* and the int a query returned (val).
Last(op, out, via) ==
    [op |-> op, out |-> out, src |-> via.src, shp |-> via.shp, sel |-> via.sel,
     dst |-> 0, tgt |-> NoArr, written |-> <<>>, pre |-> <<>>,
     lhs |-> NoOperand, rhs |-> NoOperand, val |-> 0]

\* std::make_shared<T> for each value: new cells after the ones there are.
NewData(h, vals) == [i \in 1..Len(vals) |-> Len(h) + i]

MkArr(shape, data, via) == [shape |-> shape, data |-> data, via |-> via]

\* main catches nothing: an exception ends the run, and so does undefined
\* behaviour.
Running == last.out = "ok"

CanCreate == Running /\ pc = 0 /\ Len(arrs) < MaxArrays

CanState == Running /\ pc = 0 /\ stmts < MaxStmts

\* An array of new cells holding vals joins the program.
Construct(shape, vals, via) ==
    /\ heap' = heap \o vals
    /\ arrs' = Append(arrs, MkArr(shape, NewData(heap, vals), via))
    /\ last' = [Last(via.op, "ok", via) EXCEPT !.dst = Len(arrs) + 1]

\* An operation returned r, an array over existing cells, or threw.  After
\* undefined behaviour the run is not followed further; it either stopped
\* there or produced the array r describes.
Return(r, via) ==
    /\ heap' = heap
    /\ \/ /\ r.out \in {"ok", "UB"}
          /\ arrs' = Append(arrs, MkArr(r.shape, r.data, via))
          /\ last' = [Last(via.op, r.out, via) EXCEPT !.dst = Len(arrs) + 1]
       \/ /\ r.out # "ok"
          /\ arrs' = arrs
          /\ last' = Last(via.op, r.out, via)

-----------------------------------------------------------------------------
(* Operations *)

\* An arange that counts from start + 1.
DoArangeFromNext(n, start) ==
    Construct(<<n>>, [i \in 1..n |-> IF start < IntMax THEN start + i ELSE start],
              Via("arange", <<>>, <<n>>, <<>>, start))

\* arange(n, start): std::iota stores value and increments it, n times.  An
\* increment of INT_MAX is a signed overflow (undefined): the values from
\* there on are the wrapped ones, or anything.
DoArange(n, start) ==
    LET via == Via("arange", <<>>, <<n>>, <<>>, start)
        wrapped(i) == ((start - IntMax) + (i - 2)) + (-IntMax - 1)
    IN  IF start <= IntMax - n
        THEN Construct(<<n>>, [i \in 1..n |-> start + i - 1], via)
        ELSE \E g \in Vals, wraps \in BOOLEAN :
                LET vals == [i \in 1..n |->
                                IF start <= IntMax - (i - 1) THEN start + i - 1
                                ELSE IF wraps THEN wrapped(i) ELSE g]
                IN  /\ heap' = heap \o vals
                    /\ arrs' = Append(arrs, MkArr(<<n>>, NewData(heap, vals), via))
                    /\ last' = [Last("arange", "UB", via) EXCEPT !.dst = Len(arrs) + 1]

\* scalar(s)
DoScalar(s) == Construct(<<>>, <<s>>, Via("scalar", <<>>, <<>>, <<>>, s))

\* full(shape, fill_value)
DoFull(shape, fill_value) ==
    Construct(shape, [i \in 1..GetSize(shape) |-> fill_value],
              Via("full", <<>>, shape, <<>>, fill_value))

\* ndarray()
DoDefaultCtor == Return(DefaultArray, Via("default", <<>>, <<>>, <<>>, 0))

\* ndarray(std::initializer_list<T>)
DoFlatCtor(ary) == Construct(<<Len(ary)>>, ary, Via("flat", <<>>, <<>>, <<>>, 0))

\* ndarray(std::initializer_list<ndarray>) of arrays of the program
DoNestedCtor(idx) ==
    Return(NestedArray([k \in 1..Len(idx) |-> arrs[idx[k]]]),
           Via("nested", idx, <<>>, <<>>, 0))

\* reshape(new_shape)
DoReshape(i, new_shape) ==
    Return(OpReshape(arrs[i], new_shape), Via("reshape", <<i>>, new_shape, <<>>, 0))

\* An astype that returns a view of the operand.
DoAstypeView(i) ==
    Return(Res("ok", arrs[i].shape, arrs[i].data), Via("astype", <<i>>, <<>>, <<>>, 0))

\* astype<T>(): a new cell per cell.
DoAstype(i) ==
    Construct(arrs[i].shape,
              [k \in 1..Len(arrs[i].data) |-> heap[arrs[i].data[k]]],
              Via("astype", <<i>>, <<>>, <<>>, 0))

\* operator[](index)
DoIndex(i, index) ==
    Return(OpIndex(arrs[i], index), Via("index", <<i>>, <<>>, <<IntArg(index)>>, 0))

\* slice(args...)
DoSlice(i, args) ==
    Return(OpSlice(arrs[i], args), Via("slice", <<i>>, <<>>, args, 0))

\* operator+, -, *, / on arrays and promoted scalars: the result's cells
\* are new.
DoArith(op, x, y) ==
    \E g \in Vals :
        LET h == OperandHeap(IF x[1] = "lit" THEN x ELSE y)
            r == OperatorImpl(OperandArray(x), OperandArray(y), op, h, g)
            lit == IF x[1] = "lit" THEN x[2] ELSE IF y[1] = "lit" THEN y[2] ELSE 0
            via == Via(op, OperandSrc(x) \o OperandSrc(y), <<>>, <<>>, lit)
            rec == [Last(op, r.out, via) EXCEPT !.lhs = x, !.rhs = y]
        IN  \/ /\ r.out = "ok" \/ (r.out = "UB" /\ r.more)
               /\ heap' = heap \o r.vals
               /\ arrs' = Append(arrs, MkArr(r.shape, NewData(heap, r.vals), via))
               /\ last' = [rec EXCEPT !.dst = Len(arrs) + 1]
            \/ /\ r.out # "ok"
               /\ UNCHANGED <<heap, arrs>>
               /\ last' = rec

\* target = y, through operator=(const ndarray &); a scalar y is promoted.
\* The temporary's cell is gone after the statement.
AssignTo(op, target, y) ==
    \E g \in Vals, stop \in BOOLEAN :
        LET r == OpAssign(target, OperandArray(y), OperandHeap(y), stop, g)
        IN  /\ r.out = "UB" \/ (~stop /\ g = CHOOSE v \in Vals : TRUE)
            /\ heap' = SubSeq(r.heap, 1, Len(heap))
            /\ arrs' = arrs
            /\ last' = [Last(op, r.out, target.via) EXCEPT
                            !.tgt = target, !.rhs = y, !.written = r.written,
                            !.pre = OperandHeap(y)]

DoAssign(t, y) ==
    AssignTo("assign", MkArr(arrs[t].shape, arrs[t].data,
                             Via("self", <<t>>, <<>>, <<>>, 0)), y)

\* a.slice(args...) = y
DoSliceAssign(i, args, y) ==
    LET v == OpSlice(arrs[i], args)
        via == Via("slice", <<i>>, <<>>, args, 0)
    IN  IF v.out = "ok"
        THEN AssignTo("sliceassign", MkArr(v.shape, v.data, via), y)
        ELSE /\ last' = [Last("sliceassign", v.out, via) EXCEPT !.rhs = y]
             /\ UNCHANGED <<heap, arrs>>

\* len()
DoLen(i) ==
    /\ LET r == OpLen(arrs[i])
       IN  last' = [Last("len", r.out, Via("len", <<i>>, <<>>, <<>>, 0))
                       EXCEPT !.val = r.val]
    /\ UNCHANGED <<heap, arrs>>

\* operator T()
DoScalarValue(i) ==
    /\ LET r == OpScalarValue(arrs[i], heap)
       IN  last' = [Last("scalarvalue", r.out, Via("scalarvalue", <<i>>, <<>>, <<>>, 0))
                       EXCEPT !.val = r.val]
    /\ UNCHANGED <<heap, arrs>>

-----------------------------------------------------------------------------
(* Any program over the operations: every statement creates an array over   *)
(* the arrays there are, assigns, or queries.                               *)

Creates(A) == CanCreate /\ A /\ UNCHANGED <<stmts, pc>>

States(A) == CanState /\ A /\ stmts' = stmts + 1 /\ UNCHANGED pc

Arange(n, start) == Creates(DoArange(n, start))

Scalar(s) == Creates(DoScalar(s))

Full(shape, fill_value) == Creates(DoFull(shape, fill_value))

DefaultCtor == Creates(DoDefaultCtor)

FlatCtor(ary) == Creates(DoFlatCtor(ary))

NestedCtor(idx) == Creates(DoNestedCtor(idx))

Reshape(i, new_shape) == Creates(DoReshape(i, new_shape))

Astype(i) == Creates(DoAstype(i))

Index(i, index) == Creates(DoIndex(i, index))

Slice(i, args) == Creates(DoSlice(i, args))

Arith(op, x, y) == Creates(DoArith(op, x, y))

\* operator-(): operator_impl(scalar(-1), OP_MUL)
Negate(i) == Creates(DoArith("mul", <<"arr", i>>, <<"lit", -1>>))

Assign(t, y) == States(DoAssign(t, y))

SliceAssign(i, args, y) == States(DoSliceAssign(i, args, y))

LenOf(i) == States(DoLen(i))

ScalarValue(i) == States(DoScalarValue(i))

Init ==
    /\ heap = <<>>
    /\ arrs = <<>>
    /\ last = Last("none", "ok", NoVia)
    /\ stmts = 0
    /\ pc = 0

Next ==
    \/ \E a \in ArangeArgs : Arange(a[1], a[2])
    \/ \E s \in Vals : Scalar(s)
    \/ \E shape \in FullShapes, v \in Vals : Full(shape, v)
    \/ DefaultCtor
    \/ \E ary \in FlatLiterals : FlatCtor(ary)
    \/ \E idx \in SeqsUpTo(1..Len(arrs), 2) : NestedCtor(idx)
    \/ \E i \in 1..Len(arrs), shape \in ReshapeShapes : Reshape(i, shape)
    \/ \E i \in 1..Len(arrs) : Astype(i)
    \/ \E i \in 1..Len(arrs), index \in IndexArgs : Index(i, index)
    \/ \E i \in 1..Len(arrs), args \in SliceArgLists : Slice(i, args)
    \/ \E op \in Ops, x \in ArrOperands, y \in ArrOperands : Arith(op, x, y)
    \/ \E op \in {"mul", "div"}, x \in ArrOperands, y \in LitOperands : Arith(op, x, y)
    \/ \E op \in {"add", "sub"}, x \in LitOperands, y \in ArrOperands : Arith(op, x, y)
    \/ \E i \in 1..Len(arrs) : Negate(i)
    \/ \E t \in 1..Len(arrs), y \in Operands : Assign(t, y)
    \/ \E i \in 1..Len(arrs), args \in AssignArgLists, y \in Operands : SliceAssign(i, args, y)
    \/ \E i \in 1..Len(arrs) : LenOf(i)
    \/ \E i \in 1..Len(arrs) : ScalarValue(i)

Spec == Init /\ [][Next]_vars

-----------------------------------------------------------------------------
(* main(): its statements in order, pc counting them.  The int literals of  *)
(* the arithmetic and of the last assignment are drawn from small sets that *)
(* hold main's own.                                                         *)

MainAddends == {3, 4}

MainOnes == {0, 1, 2}

MainTwos == {1, 2}

MainMarks == {5566, -1}

AtLine(n) == Running /\ pc = n /\ pc' = n + 1 /\ UNCHANGED stmts

\* auto a = ndarray<int>::arange(20).reshape({4, 1, 5});
MainArange == AtLine(1) /\ DoArange(20, 0)

MainReshape == AtLine(2) /\ DoReshape(1, <<4, 1, 5>>)

\* auto b = a.slice(std::make_pair(1, 4), 0, std::make_pair(2, 5));
MainSlice == AtLine(3) /\ DoSlice(2, <<RangeArg(1, 4), IntArg(0), RangeArg(2, 5)>>)

\* 3 + ndarray<int>::full({3, 1, 1}, 1) + -ndarray<int>::full({1, 3}, 2)
MainFullLeft == AtLine(4) /\ \E v \in MainOnes : DoFull(<<3, 1, 1>>, v)

MainAddLiteral == AtLine(5) /\ \E c \in MainAddends : DoArith("add", <<"lit", c>>, <<"arr", 4>>)

MainFullRight == AtLine(6) /\ \E v \in MainTwos : DoFull(<<1, 3>>, v)

MainNegate == AtLine(7) /\ DoArith("mul", <<"arr", 6>>, <<"lit", -1>>)

MainAdd == AtLine(8) /\ DoArith("add", <<"arr", 5>>, <<"arr", 7>>)

\* a.slice(std::make_pair(1, 4), std::make_pair(0, 1), std::make_pair(2, 5)) = ...
MainSliceAssign ==
    AtLine(9) /\ DoSliceAssign(2, <<RangeArg(1, 4), RangeArg(0, 1), RangeArg(2, 5)>>,
                               <<"arr", 8>>)

\* a[-1][-1][-1] = 5566;
MainIndex1 == AtLine(10) /\ DoIndex(2, -1)

MainIndex2 == AtLine(11) /\ DoIndex(9, -1)

MainIndex3 == AtLine(12) /\ DoIndex(10, -1)

MainAssign == AtLine(13) /\ \E c \in MainMarks : DoAssign(11, <<"lit", c>>)

InitMain ==
    /\ heap = <<>>
    /\ arrs = <<>>
    /\ last = Last("none", "ok", NoVia)
    /\ stmts = 0
    /\ pc = 1

NextMain ==
    \/ MainArange
    \/ MainReshape
    \/ MainSlice
    \/ MainFullLeft
    \/ MainAddLiteral
    \/ MainFullRight
    \/ MainNegate
    \/ MainAdd
    \/ MainSliceAssign
    \/ MainIndex1
    \/ MainIndex2
    \/ MainIndex3
    \/ MainAssign

SpecMain == InitMain /\ [][NextMain]_vars

-----------------------------------------------------------------------------
(* Reference semantics: row-major positions, selection and broadcasting     *)
(* stated on multi-indices, independently of the code's loops.              *)

NonNegative(shape) == \A k \in 1..Len(shape) : shape[k] >= 0

\* The elements one step along axis k span.
Stride(shape, k) == GetSize(SubSeq(shape, k + 1, Len(shape)))

\* The index along axis k of flat position p, both counted from 0.
Coord(p, shape, k) == (p \div Stride(shape, k)) % shape[k]

RefResolve(i, n) == IF i < 0 THEN i + n ELSE i

RefStart(arg, n) == Max(0, RefResolve(arg[2], n))

RefEnd(arg, n) == Min(n, RefResolve(arg[3], n))

RefCount(arg, n) == Max(0, RefEnd(arg, n) - RefStart(arg, n))

\* Index c along an axis of length n is selected by the argument.
ArgSelects(arg, c, n) ==
    IF arg[1] = "i"
    THEN c = RefResolve(arg[2], n)
    ELSE RefStart(arg, n) <= c /\ c < RefEnd(arg, n)

\* Every integer argument is within its axis.
ArgsInBounds(shape, args) ==
    /\ Len(args) <= Len(shape)
    /\ \A k \in 1..Len(args) :
          args[k][1] = "i" => (-shape[k] <= args[k][2] /\ args[k][2] < shape[k])

RECURSIVE SortedSeq(_)
SortedSeq(S) ==
    IF S = {} THEN <<>>
    ELSE LET m == CHOOSE x \in S : \A y \in S : x <= y
         IN  <<m>> \o SortedSeq(S \ {m})

\* The flat positions (from 1) of an array of this shape that the arguments
\* select, in row-major order.
RefSel(shape, args) ==
    IF ~NonNegative(shape) \/ Len(args) > Len(shape) THEN <<>>
    ELSE SortedSeq({p \in 1..GetSize(shape) :
                       \A k \in 1..Len(args) :
                           ArgSelects(args[k], Coord(p - 1, shape, k), shape[k])})

\* The shape of the selection: an integer drops its axis, a range keeps it
\* with the length of the clamped range, the axes left over are kept whole.
RECURSIVE RefShape(_, _)
RefShape(shape, args) ==
    IF args = <<>> THEN shape
    ELSE IF Head(args)[1] = "i" THEN RefShape(Tail(shape), Tail(args))
    ELSE <<RefCount(Head(args), Head(shape))>> \o RefShape(Tail(shape), Tail(args))

\* The size of axis k of a shape aligned to rank r on its trailing axes.
Dim(shape, k, r) ==
    IF k <= r - Len(shape) THEN 1 ELSE shape[k - (r - Len(shape))]

RefRank(A, B) == Max(Len(A), Len(B))

\* NumPy's rule for arithmetic: either side may be expanded.
Compatible(A, B) ==
    \A k \in 1..RefRank(A, B) :
        LET a == Dim(A, k, RefRank(A, B))
            b == Dim(B, k, RefRank(A, B))
        IN  a = b \/ a = 1 \/ b = 1

RefBroadcastShape(A, B) ==
    [k \in 1..RefRank(A, B) |->
        LET a == Dim(A, k, RefRank(A, B))
            b == Dim(B, k, RefRank(A, B))
        IN  IF a = 1 THEN b ELSE a]

\* The rule for assignment: only the value is expanded.
AssignCompatible(T, V) ==
    \A k \in 1..RefRank(T, V) :
        LET l == Dim(T, k, RefRank(T, V))
            r == Dim(V, k, RefRank(T, V))
        IN  l = r \/ r = 1

\* The flat position (from 1) in an array of shape S that position p (from
\* 1) of the broadcast shape R reads: broadcast axes are read at index 0.
RECURSIVE RefOffset(_, _, _, _)
RefOffset(S, R, p, m) ==
    IF m > Len(S) THEN 0
    ELSE (IF S[m] = 1 THEN 0 ELSE Coord(p - 1, R, m + Len(R) - Len(S)) * Stride(S, m))
         + RefOffset(S, R, p, m + 1)

RefSource(S, R, p) == 1 + RefOffset(S, R, p, 1)

\* The values read through an array.
Values(v, h) == [k \in 1..Len(v.data) |-> h[v.data[k]]]

-----------------------------------------------------------------------------
(* Views: where the elements of an array come from *)

IsViewOp(op) == op \in {"index", "slice", "reshape"}

Parent(v) == arrs[v.via.src[1]]

\* The flat positions of its parent that a view's elements are, in order.
StepPos(v) ==
    IF v.via.op = "reshape" THEN [k \in 1..Len(v.data) |-> k]
    ELSE RefSel(Parent(v).shape, v.via.sel)

\* v was derived from arrs[j] by a chain of index, slice and reshape.
RECURSIVE DerivedFrom(_, _)
DerivedFrom(v, j) ==
    IsViewOp(v.via.op) /\ (v.via.src[1] = j \/ DerivedFrom(Parent(v), j))

\* The flat positions of arrs[j] that the elements of v are (0: none).
RECURSIVE PosIn(_, _)
PosIn(v, j) ==
    IF v.via.src[1] = j THEN StepPos(v)
    ELSE LET up == PosIn(Parent(v), j)
         IN  [k \in 1..Len(StepPos(v)) |->
                 IF StepPos(v)[k] \in DOMAIN up THEN up[StepPos(v)[k]] ELSE 0]

\* The array an assignment went through: an array of the program, or the
\* temporary of a.slice(args...) = y.
AssignedView ==
    IF last.tgt.via.op = "self" THEN arrs[last.tgt.via.src[1]] ELSE last.tgt

\* An operand of the last operation, and the value of its q-th element
\* before the operation.
OperandValue(x, q) == OperandHeap(x)[OperandArray(x).data[q]]

-----------------------------------------------------------------------------
(* Claims *)

\* C1: after a successful assignment through a view v derived from an array
\* a by index, slice and reshape, a reads the assigned value at the position
\* each element of v came from, and so does every other view derived from a
\* at that position.
C1_WriteThrough ==
    (last.op \in {"assign", "sliceassign"} /\ last.out = "ok") =>
        \A j \in 1..Len(arrs) :
            DerivedFrom(AssignedView, j) =>
                \A p \in 1..Len(AssignedView.data) :
                    LET pos == PosIn(AssignedView, j)
                    IN  /\ p \in DOMAIN pos
                        /\ pos[p] \in 1..Len(arrs[j].data)
                        /\ heap[arrs[j].data[pos[p]]] = last.written[p]
                        /\ \A b \in 1..Len(arrs) :
                              DerivedFrom(arrs[b], j) =>
                                  \A r \in 1..Len(PosIn(arrs[b], j)) :
                                      PosIn(arrs[b], j)[r] = pos[p] =>
                                          /\ r <= Len(arrs[b].data)
                                          /\ heap[arrs[b].data[r]] = last.written[p]

\* C2: after a successful a.slice(args) = other, (i) a's elements at
\* positions the slice does not select are as before, (ii) no array's shape
\* or references changed, and (iii) a view taken earlier reads other's
\* broadcast values at the positions it shares with the slice and its old
\* values elsewhere.
SliceFrame ==
    (last.op = "sliceassign" /\ last.out = "ok") =>
        LET a == arrs[last.src[1]]
            pos == RefSel(a.shape, last.sel)
            Hit(q) == {p \in 1..Len(pos) : pos[p] = q}
            Other(p) == last.pre[OperandArray(last.rhs).data[
                            RefSource(OperandArray(last.rhs).shape, last.tgt.shape, p)]]
        IN  /\ \A q \in 1..Len(a.data) :
                  Hit(q) = {} => heap[a.data[q]] = last.pre[a.data[q]]
            /\ \A b \in 1..Len(arrs) :
                  DerivedFrom(arrs[b], last.src[1]) =>
                      \A r \in 1..Len(arrs[b].data) :
                          LET q == PosIn(arrs[b], last.src[1])[r]
                          IN  IF Hit(q) = {}
                              THEN heap[arrs[b].data[r]] = last.pre[arrs[b].data[r]]
                              ELSE \A p \in Hit(q) : heap[arrs[b].data[r]] = Other(p)

C2_FrameOfAssignment ==
    [][(last'.op = "sliceassign" /\ last'.out = "ok") =>
          (arrs' = arrs /\ SliceFrame')]_vars

\* C3: in main, b = a.slice((1,4), 0, (2,5)) has shape [3,3] and reads
\* 7,8,9,12,13,14,17,18,19 until the slice assignment; after
\* a.slice((1,4),(0,1),(2,5)) = 3 + full([3,1,1],1) + -full([1,3],2) every
\* element of b is 2 and a reads 0..4, 5,6,2,2,2, 10,11,2,2,2, 15,16,2,2,2
\* in shape [4,1,5]; no statement of main fails.
MainLiterals ==
    /\ Len(arrs) >= 8
    /\ arrs[4].via.lit = 1
    /\ arrs[5].via.lit = 3
    /\ arrs[6].via.lit = 2

C3_MainScenario ==
    /\ last.out = "ok"
    /\ pc >= 4 => arrs[3].shape = <<3, 3>>
    /\ pc \in 4..9 => Values(arrs[3], heap) = <<7, 8, 9, 12, 13, 14, 17, 18, 19>>
    /\ (pc \in 10..13 /\ MainLiterals) =>
          /\ Values(arrs[3], heap) = [k \in 1..9 |-> 2]
          /\ arrs[2].shape = <<4, 1, 5>>
          /\ Values(arrs[2], heap) =
                <<0, 1, 2, 3, 4, 5, 6, 2, 2, 2, 10, 11, 2, 2, 2, 15, 16, 2, 2, 2>>

C3_Witness ==
    /\ pc = 10
    /\ MainLiterals
    /\ last.op = "sliceassign"
    /\ last.out = "ok"
    /\ Len(last.written) = 9

\* C4: for operands of non-negative shapes A and B, add, sub, mul and div
\* (no divisor element being 0) succeed exactly when every pair of sizes on
\* the aligned trailing axes, a missing axis counting as 1, is equal or has
\* a 1; the result's shape takes per axis the size that is not 1, and its
\* element at every position is op of the operands' elements there,
\* broadcast axes read at index 0.  Otherwise the operation fails with a
\* value error.
C4_ArithmeticBroadcast ==
    LET A == OperandArray(last.lhs)
        B == OperandArray(last.rhs)
        R == RefBroadcastShape(A.shape, B.shape)
    IN  (/\ last.op \in Ops
         /\ NonNegative(A.shape)
         /\ NonNegative(B.shape)
         /\ last.op = "div" =>
               \A q \in 1..Len(B.data) : OperandValue(last.rhs, q) # 0) =>
            IF Compatible(A.shape, B.shape)
            THEN /\ last.out = "ok"
                 /\ arrs[last.dst].shape = R
                 /\ Len(arrs[last.dst].data) = GetSize(R)
                 /\ \A p \in 1..GetSize(R) :
                       heap[arrs[last.dst].data[p]] =
                           ApplyOp(last.op,
                                   OperandValue(last.lhs, RefSource(A.shape, R, p)),
                                   OperandValue(last.rhs, RefSource(B.shape, R, p)))
            ELSE last.out = "ValueError"

\* C5: an assignment to a target of non-negative shape T of a value of
\* non-negative shape V succeeds exactly when every pair (l, r) of sizes on
\* the aligned trailing axes, a missing axis counting as 1, has l = r or
\* r = 1; every target position then receives the value's element there,
\* broadcast axes read at index 0.  Otherwise it fails with a value error.
C5_AssignBroadcast ==
    LET T == last.tgt
        V == OperandArray(last.rhs)
    IN  (/\ last.op \in {"assign", "sliceassign"}
         /\ T.via.op # "new"
         /\ NonNegative(T.shape)
         /\ NonNegative(V.shape)) =>
            IF AssignCompatible(T.shape, V.shape)
            THEN /\ last.out = "ok"
                 /\ Len(last.written) = Len(T.data)
                 /\ \A p \in 1..Len(T.data) :
                       /\ RefSource(V.shape, T.shape, p) <= Len(V.data)
                       /\ last.written[p] =
                             last.pre[V.data[RefSource(V.shape, T.shape, p)]]
            ELSE last.out = "ValueError"

\* C6: unless the run has met undefined behaviour, every array holds as many
\* cells as the product of its shape, and no null cell.
C6_StorageInvariant ==
    last.out # "UB" =>
        \A i \in 1..Len(arrs) :
            /\ Len(arrs[i].data) = GetSize(arrs[i].shape)
            /\ \A k \in 1..Len(arrs[i].data) : arrs[i].data[k] # Null

\* C7: an operation that fails with an index, type or value error leaves
\* every array's shape and references and every cell's value as they were.
C7_ErrorAtomicity ==
    [][last'.out \in Errors => (arrs' = arrs /\ heap' = heap)]_vars

C7_Witness ==
    /\ last.op \in {"assign", "sliceassign"}
    /\ last.out = "ValueError"
    /\ Len(last.tgt.data) > 0
    /\ last.rhs[1] = "arr"
    /\ Values(last.tgt, heap) # Values(arrs[last.rhs[2]], heap)

\* C8: a.reshape(s) succeeds exactly when product(s) = product(a.shape()),
\* and then has shape s and a's references in a's order; otherwise it fails
\* with a value error.  Reshaping a reshaped array back to a's shape gives
\* a's shape, references and values.
C8_ReshapeView ==
    /\ last.op = "reshape" =>
          LET a == arrs[last.src[1]]
          IN  IF GetSize(last.shp) = GetSize(a.shape)
              THEN /\ last.out = "ok"
                   /\ arrs[last.dst].shape = last.shp
                   /\ arrs[last.dst].data = a.data
              ELSE last.out = "ValueError"
    /\ \A i \in 1..Len(arrs) :
          arrs[i].via.op = "reshape" =>
              LET a == arrs[arrs[i].via.src[1]]
                  back == OpReshape(arrs[i], a.shape)
              IN  /\ back.out = "ok"
                  /\ back.shape = a.shape
                  /\ back.data = a.data
                  /\ Values(back, heap) = Values(a, heap)

C8_Witness ==
    /\ last.op = "reshape"
    /\ last.out = "ok"
    /\ arrs[last.dst].shape # arrs[last.src[1]].shape
    /\ Len(arrs[last.dst].data) >= 2
    /\ arrs[last.dst].data[1] # arrs[last.dst].data[2]

\* C9: on an array of rank >= 1 with axis-0 length n, a[i] for i in [-n, n)
\* has shape shape[1:] and a's references at flat positions [j*m, (j+1)*m),
\* m = product(shape[1:]), j = i + n for i < 0 and i otherwise; any other i,
\* and any i on a rank-0 array, fails with an index error.
C9_IndexView ==
    last.op = "index" =>
        LET a == arrs[last.src[1]]
            i == last.sel[1][2]
        IN  IF Len(a.shape) = 0 THEN last.out = "IndexError"
            ELSE LET n == a.shape[1]
                     m == GetSize(Tail(a.shape))
                     j == IF i < 0 THEN i + n ELSE i
                 IN  IF -n <= i /\ i < n
                     THEN /\ last.out = "ok"
                          /\ arrs[last.dst].shape = Tail(a.shape)
                          /\ arrs[last.dst].data = [k \in 1..m |-> a.data[j * m + k]]
                     ELSE last.out = "IndexError"

\* C10: a slice whose first argument is a range (start, end), on an array of
\* non-negative shape and with the remaining arguments in bounds, succeeds;
\* its shape is [end - start] over the clamped bounds followed by the shape
\* the remaining arguments select from one sub-array, and its references
\* are the selected references of the array in row-major order.  Ranges
\* that select nothing and sub-arrays without elements are included.
C10_RangeSlice ==
    LET a == arrs[last.src[1]]
    IN  (/\ last.op = "slice"
         /\ last.sel # <<>>
         /\ Head(last.sel)[1] = "r"
         /\ NonNegative(a.shape)
         /\ ArgsInBounds(a.shape, last.sel)) =>
            /\ last.out = "ok"
            /\ arrs[last.dst].shape = RefShape(a.shape, last.sel)
            /\ arrs[last.dst].data =
                  [k \in 1..Len(RefSel(a.shape, last.sel)) |->
                      a.data[RefSel(a.shape, last.sel)[k]]]

\* C11: slice with more arguments than the rank fails with an index error;
\* with at most rank arguments, integers in bounds, on an array of
\* non-negative shape, it succeeds, an integer removing its axis, a range
\* keeping it and the axes left over returned whole: the rank is the
\* array's minus the number of integers, the shape and the references are
\* those the arguments select, and slice() is the whole array.
IntCount(args) == Cardinality({k \in 1..Len(args) : args[k][1] = "i"})

C11_SliceArity ==
    last.op = "slice" =>
        LET a == arrs[last.src[1]]
        IN  IF Len(last.sel) > Len(a.shape) THEN last.out = "IndexError"
            ELSE (NonNegative(a.shape) /\ ArgsInBounds(a.shape, last.sel)) =>
                    /\ last.out = "ok"
                    /\ Len(arrs[last.dst].shape) = Len(a.shape) - IntCount(last.sel)
                    /\ arrs[last.dst].shape = RefShape(a.shape, last.sel)
                    /\ arrs[last.dst].data =
                          [k \in 1..Len(RefSel(a.shape, last.sel)) |->
                              a.data[RefSel(a.shape, last.sel)[k]]]
                    /\ last.sel = <<>> => arrs[last.dst].data = a.data

-----------------------------------------------------------------------------
(* The statements of C1, C2, C4, C5 and C9 where every array has a          *)
(* non-negative shape, as many cells as its shape's product, and no cell    *)
(* twice: there they hold.                                                  *)

WellFormed(a) ==
    /\ NonNegative(a.shape)
    /\ Len(a.data) = GetSize(a.shape)
    /\ \A p, q \in 1..Len(a.data) : a.data[p] = a.data[q] => p = q

AllWellFormed ==
    /\ last.tgt # NoArr => WellFormed(last.tgt)
    /\ \A i \in 1..Len(arrs) : WellFormed(arrs[i])

WriteThroughOnWellFormed == AllWellFormed => C1_WriteThrough

SliceFrameOnWellFormed == AllWellFormed => SliceFrame

ArithmeticOnWellFormed == AllWellFormed => C4_ArithmeticBroadcast

AssignOnWellFormed == AllWellFormed => C5_AssignBroadcast

IndexOnWellFormed == AllWellFormed => C9_IndexView

-----------------------------------------------------------------------------
\* C12: the array add, sub, mul, div (scalar forms and negation included)
\* or astype returns holds newly allocated cells only: no cell twice and
\* none that an array there before holds; astype's has the operand's shape,
\* one cell per cell of the operand and its values, and where the operands
\* are well formed the result has one cell per position of its shape.
\* After a successful assignment into an operand of a computed array or a
\* view of the operand, the computed array reads what it read before; after
\* one into a computed array or its view, its operands do.
IsComputed(v) == v.via.op \in Ops \cup {"astype"}

\* The last assignment went through arrs[j] or a view derived from it.
AssignedInto(j) ==
    \/ last.tgt.via.op = "self" /\ last.tgt.via.src[1] = j
    \/ DerivedFrom(AssignedView, j)

FreshCells ==
    (last.op \in Ops \cup {"astype"} /\ last.out = "ok") =>
        LET r == arrs[last.dst]
        IN  /\ \A p, q \in 1..Len(r.data) : r.data[p] = r.data[q] => p = q
            /\ \A j \in 1..(last.dst - 1) :
                  \A p \in 1..Len(r.data), q \in 1..Len(arrs[j].data) :
                      r.data[p] # arrs[j].data[q]
            /\ last.op = "astype" =>
                  /\ r.shape = arrs[last.src[1]].shape
                  /\ Values(r, heap) = Values(arrs[last.src[1]], heap)
            /\ (\A k \in 1..Len(last.src) : WellFormed(arrs[last.src[k]])) =>
                  Len(r.data) = GetSize(r.shape)

Unaliased ==
    (last.op \in {"assign", "sliceassign"} /\ last.out = "ok") =>
        \A i \in 1..Len(arrs) :
            IsComputed(arrs[i]) =>
                \A k \in 1..Len(arrs[i].via.src) :
                    LET o == arrs[i].via.src[k]
                    IN  /\ AssignedInto(o) =>
                              Values(arrs[i], heap) = Values(arrs[i], last.pre)
                        /\ AssignedInto(i) =>
                              Values(arrs[o], heap) = Values(arrs[o], last.pre)

-----------------------------------------------------------------------------
(* arange alone, over counts up to MaxN + 1 and starts at both ends of int, *)
(* then its length and elements read.                                       *)

ArangeStarts == {-IntMax - 1, -1, 0, 1, IntMax - MaxN - 1, IntMax - 1, IntMax}

ArangeFirst == \E n \in 0..(MaxN + 1), start \in ArangeStarts :
                   Len(arrs) = 0 /\ Arange(n, start)

ArangeElement == \E i \in (-1)..(MaxN + 1) : Len(arrs) = 1 /\ Index(1, i)

ArangeLen == Len(arrs) = 1 /\ LenOf(1)

NextArange == ArangeFirst \/ ArangeElement \/ ArangeLen

SpecArange == Init /\ [][NextArange]_vars

\* C13 as stated: for every n >= 0 and every start, arange(n, start)
\* has shape [n] and n cells, the one at index i holding start + i, and
\* reading index i gives that value; arange(0) has shape [0] and no cell.
ArangeOf(a) == a.via.op = "arange"

ArangeHolds(a) ==
    /\ a.shape = a.via.shp
    /\ Len(a.data) = a.via.shp[1]
    /\ \A i \in 1..Len(a.data) : heap[a.data[i]] = a.via.lit + (i - 1)

C13_Arange ==
    /\ last.op = "arange" => (last.out = "ok" /\ ArangeHolds(arrs[last.dst]))
    /\ (last.op = "len" /\ ArangeOf(arrs[last.src[1]])) =>
          (last.out = "ok" /\ last.val = arrs[last.src[1]].via.shp[1])
    /\ (last.op = "index" /\ last.out = "ok" /\ ArangeOf(arrs[last.src[1]])) =>
          Values(arrs[last.dst], heap) =
              <<arrs[last.src[1]].via.lit + RefResolve(last.sel[1][2], Len(arrs[last.src[1]].data))>>

\* C13, amended: the same for every n >= 0 and every start with
\* start + n <= INT_MAX.
InIntRange(a) == a.via.lit <= IntMax - a.via.shp[1]

C13_ArangeInRange ==
    /\ (last.op = "arange" /\ InIntRange(arrs[last.dst])) =>
          (last.out = "ok" /\ ArangeHolds(arrs[last.dst]))
    /\ (last.op = "len" /\ ArangeOf(arrs[last.src[1]])) =>
          (last.out = "ok" /\ last.val = arrs[last.src[1]].via.shp[1])
    /\ (last.op = "index" /\ last.out = "ok" /\ ArangeOf(arrs[last.src[1]])) =>
          Values(arrs[last.dst], heap) =
              <<arrs[last.src[1]].via.lit + RefResolve(last.sel[1][2], Len(arrs[last.src[1]].data))>>

C13_Witness ==
    /\ last.op = "index"
    /\ last.out = "ok"
    /\ ArangeOf(arrs[last.src[1]])
    /\ arrs[last.src[1]].via.lit = IntMax - MaxN - 1
    /\ last.sel[1][2] = MaxN

-----------------------------------------------------------------------------
\* C14: while no operation has failed (arange with n >= 0, full with
\* entries >= 0, reshape with product(new_shape) = size(), slice with at
\* most ndim arguments), every array's shape has non-negative entries only.
C14_ShapeWellFormed ==
    last.out = "ok" => \A i \in 1..Len(arrs) : NonNegative(arrs[i].shape)

-----------------------------------------------------------------------------
(* Assignment between two views of one array: a = arange(n), v a range of   *)
(* a, then a.slice(range) = v.                                              *)

OverlapBounds == 0..(MaxN + 1)

OverlapArange == \E n \in OverlapBounds : Len(arrs) = 0 /\ Arange(n, 0)

OverlapView ==
    \E b \in OverlapBounds, e \in OverlapBounds :
        Len(arrs) = 1 /\ Slice(1, <<RangeArg(b, e)>>)

OverlapAssign ==
    \E b \in OverlapBounds, e \in OverlapBounds :
        Len(arrs) = 2 /\ SliceAssign(1, <<RangeArg(b, e)>>, <<"arr", 2>>)

NextOverlap == OverlapArange \/ OverlapView \/ OverlapAssign

SpecOverlap == Init /\ [][NextOverlap]_vars

\* C16: after a successful target = value, every position p of the target
\* holds the element of value that is broadcast to p, as it was before the
\* assignment, also when value shares cells with the target.
C16_ReadsBeforeWrites ==
    (last.op \in {"assign", "sliceassign"} /\ last.out = "ok") =>
        LET T == last.tgt
            V == OperandArray(last.rhs)
        IN  \A p \in 1..Len(T.data) :
                heap[T.data[p]] = last.pre[V.data[RefSource(V.shape, T.shape, p)]]

-----------------------------------------------------------------------------
\* C17: whenever braodcast returns true, in arithmetic both expanded
\* reference sequences have as many references as the product of the
\* aligned shape, and in assignment the expanded right-hand sequence has
\* as many as the target has cells; no loop reads past the end of a
\* sequence, and expansion yields references of the operand only.
Expanded(b, lhs, rhs) ==
    /\ ~b.ub
    /\ Range(b.ldata) \subseteq Range(lhs.data)
    /\ Range(b.rdata) \subseteq Range(rhs.data)

C17_SizeAssertions ==
    /\ last.op \in Ops =>
          LET A == OperandArray(last.lhs)
              B == OperandArray(last.rhs)
              b == Braodcast(A.shape, B.shape, TRUE, A.data, B.data)
          IN  b.ok => /\ Expanded(b, A, B)
                      /\ Len(b.ldata) = GetSize(b.shape)
                      /\ Len(b.rdata) = GetSize(b.shape)
    /\ (last.op \in {"assign", "sliceassign"} /\ last.tgt # NoArr) =>
          LET T == last.tgt
              V == OperandArray(last.rhs)
              b == Braodcast(T.shape, V.shape, FALSE, T.data, V.data)
          IN  b.ok => /\ Expanded(b, T, V)
                      /\ Len(b.rdata) = Len(T.data)

SizeAssertionsOnWellFormed == AllWellFormed => C17_SizeAssertions


-----------------------------------------------------------------------------
(* kMostFrequent of src/unnamed/part_001: a k-way merge of sorted lists     *)
(* through a binary min-heap of list cursors, counting runs of equal values *)
(* into a min-priority-queue of (count, value) pairs trimmed to k entries.  *)
(*                                                                          *)
(* In this specification the variables hold the function's own state:       *)
(*   arrs   the argument  lists, each list as the sequence of its values;   *)
(*   heap   the vector  heap  of list cursors, a cursor being <<l, p>>,     *)
(*          node p of list l;                                               *)
(*   stmts  how many lists the first loop has pushed;                       *)
(*   last   k, cur, count, frequency, the chain hung below dummy, and the   *)
(*          returned vector;                                                *)
(*   pc     "build", "declare", "merge" or "done".                          *)
(* The merge relinks a node only after its successor has been read into     *)
(* heap, so a cursor's successor is the node after it in its own list.      *)

MaxLists == 2    \* lists of one call, other than the documented example
MaxVal == 3      \* their values are 1..MaxVal
MaxK == 4        \* k is 0..MaxK

DummyVal == 5566

Dummy == <<0, 0>>

NullNode == <<0, 1>>

NodeVal(lists, node) == IF node = Dummy THEN DummyVal
                        ELSE lists[node[1]][node[2]]

NodeNext(lists, node) ==
    IF node[2] < Len(lists[node[1]]) THEN <<node[1], node[2] + 1>>
    ELSE NullNode

Swap(h, i, j) == [h EXCEPT ![i + 1] = h[j + 1], ![j + 1] = h[i + 1]]

\* the inner loop of the heap build: h[i] climbs while its parent is larger
RECURSIVE SiftUp(_, _, _)
SiftUp(lists, h, i) ==
    IF i > 0
    THEN LET parent == (i - 1) \div 2
         IN  IF NodeVal(lists, h[parent + 1]) <= NodeVal(lists, h[i + 1])
             THEN h
             ELSE SiftUp(lists, Swap(h, parent, i), parent)
    ELSE h

\* the "adjust heap" loop: h[i] sinks below its smaller child
RECURSIVE SiftDown(_, _, _)
SiftDown(lists, h, i) ==
    LET n == Len(h)
        l == (i * 2) + 1
        r == (i + 1) * 2
    IN  IF /\ (l >= n) \/ (NodeVal(lists, h[i + 1]) <= NodeVal(lists, h[l + 1]))
           /\ (r >= n) \/ (NodeVal(lists, h[i + 1]) <= NodeVal(lists, h[r + 1]))
        THEN h
        ELSE LET child ==
                    IF (r < n) /\ (NodeVal(lists, h[r + 1]) < NodeVal(lists, h[l + 1]))
                    THEN r ELSE l
             IN  SiftDown(lists, Swap(h, child, i), child)

\* heap[0] = heap[0]->next, and the last cursor moved to the root when that
\* is null
Advance(lists, h) ==
    IF NodeNext(lists, h[1]) = NullNode
    THEN SubSeq([h EXCEPT ![1] = h[Len(h)]], 1, Len(h) - 1)
    ELSE [h EXCEPT ![1] = NodeNext(lists, h[1])]

\* std::pair's operator<
PairLess(p, q) == (p[1] < q[1]) \/ (p[1] = q[1] /\ p[2] < q[2])

\* the priority queue under std::greater, kept as the ascending sequence of
\* its entries: top() is the head
RECURSIVE Emplace(_, _)
Emplace(q, p) ==
    IF q = <<>> THEN <<p>>
    ELSE IF PairLess(p, Head(q)) THEN <<p>> \o q
    ELSE <<Head(q)>> \o Emplace(Tail(q), p)

\* while (frequency.size() > k) frequency.pop()
RECURSIVE Trim(_, _)
Trim(q, k) == IF Len(q) > k THEN Trim(Tail(q), k) ELSE q

\* the "adjust frequency" branch of one merge step: <<frequency, count>>
AdjustFrequency(q, count, cur, curVal, nextVal, empty) ==
    IF empty
    THEN IF curVal = nextVal
         THEN <<Emplace(q, <<count + 1, curVal>>), count>>
         ELSE <<Emplace(Emplace(q, <<count, curVal>>), <<1, nextVal>>), count>>
    ELSE IF (cur # Dummy) /\ (curVal # nextVal)
         THEN <<Emplace(q, <<count, curVal>>), 1>>
         ELSE <<q, count + 1>>

\* the output loop: the values in the order popped, then reversed
PopAll(q) == Reverse([i \in 1..Len(q) |-> q[i][2]])

KLocals(k, cur, count, frequency, merged, out) ==
    [k |-> k, cur |-> cur, count |-> count, frequency |-> frequency,
     merged |-> merged, out |-> out]

\* one pass of the first loop: push the head of the next list, sift it up
BuildHeap ==
    /\ pc = "build"
    /\ stmts < Len(arrs)
    /\ heap' = SiftUp(arrs, Append(heap, <<stmts + 1, 1>>), Len(heap))
    /\ stmts' = stmts + 1
    /\ pc' = IF stmts + 1 = Len(arrs) THEN "declare" ELSE "build"
    /\ UNCHANGED <<arrs, last>>

\* dummy, count and frequency come to life
Declare ==
    /\ pc = "declare"
    /\ last' = KLocals(last.k, Dummy, 0, <<>>, <<>>, <<>>)
    /\ pc' = "merge"
    /\ UNCHANGED <<arrs, heap, stmts>>

\* one pass of the merge loop
Merge ==
    /\ pc = "merge"
    /\ heap # <<>>
    /\ LET next == heap[1]
           h == SiftDown(arrs, Advance(arrs, heap), 0)
           f == AdjustFrequency(last.frequency, last.count, last.cur,
                                NodeVal(arrs, last.cur), NodeVal(arrs, next),
                                h = <<>>)
       IN  /\ heap' = h
           /\ last' = KLocals(last.k, next, f[2], Trim(f[1], last.k),
                              Append(last.merged, next), <<>>)
    /\ UNCHANGED <<arrs, stmts, pc>>

\* the output loop and the return
Output ==
    /\ pc = "merge"
    /\ heap = <<>>
    /\ last' = [last EXCEPT !.out = PopAll(last.frequency)]
    /\ pc' = "done"
    /\ UNCHANGED <<arrs, heap, stmts>>

\* sorted lists with no duplicates, none of them empty
RECURSIVE Ascending(_)
Ascending(s) == Len(s) < 2 \/ (s[1] < s[2] /\ Ascending(Tail(s)))

SortedLists == {s \in SeqsUpTo(1..MaxVal, MaxVal) : s # <<>> /\ Ascending(s)}

ExampleLists == << <<2, 3, 6>>, <<1, 3, 4, 5, 6, 8>>,
                   <<1, 3, 5, 6, 9, 10>>, <<3, 5, 7, 11>> >>

KInputs == SeqsUpTo(SortedLists, MaxLists) \cup {ExampleLists}

InitKMost ==
    /\ arrs \in KInputs
    /\ \E k \in 0..MaxK : last = KLocals(k, Dummy, 0, <<>>, <<>>, <<>>)
    /\ heap = <<>>
    /\ stmts = 0
    /\ pc = IF arrs = <<>> THEN "declare" ELSE "build"

NextKMost == BuildHeap \/ Declare \/ Merge \/ Output

SpecKMost == InitKMost /\ [][NextKMost]_vars

(* What the documentation asks of the returned vector. *)

ListValues == UNION {Range(arrs[l]) : l \in 1..Len(arrs)}

Occurrences(v) == Cardinality({l \in 1..Len(arrs) : v \in Range(arrs[l])})

Returned == pc = "done"

OnlyListValues == Range(last.out) \subseteq ListValues

NoRepeats == Cardinality(Range(last.out)) = Len(last.out)

TopK ==
    /\ Len(last.out) = Min(last.k, Cardinality(ListValues))
    /\ \A v \in Range(last.out), w \in ListValues \ Range(last.out) :
          Occurrences(v) >= Occurrences(w)

MostFrequentFirst ==
    \A i \in 1..Len(last.out), j \in 1..Len(last.out) :
        i < j => Occurrences(last.out[i]) >= Occurrences(last.out[j])

DocumentedExample ==
    arrs = ExampleLists =>
        /\ last.k = 1 => last.out = <<3>>
        /\ last.k = 3 => last.out = <<3, 5, 6>>
        /\ last.k = 4 => last.out = <<3, 5, 6, 1>>

\* C15: for sorted duplicate-free lists kMostFrequent returns the k values
\* that occur in the most lists, most frequent first, never a value that is
\* in no list, and for the documented lists it returns [3] for k = 1,
\* [3,5,6] for k = 3 and [3,5,6,1] for k = 4.
C15_KMostFrequent ==
    Returned =>
        /\ OnlyListValues
        /\ NoRepeats
        /\ TopK
        /\ MostFrequentFirst
        /\ DocumentedExample


-----------------------------------------------------------------------------
(* search of src/cpp/boyer-moore.cpp, with its two tables.                  *)
(*                                                                          *)
(* In this specification the variables hold:                                *)
(*   arrs   the arguments text and pattern, sequences of char codes;        *)
(*   heap   the tables delta1 and delta2;                                   *)
(*   last   the argument start as passed (from), the running start, the     *)
(*          shift taken last, and the returned value;                       *)
(*   stmts  the passes of the while loop so far;                            *)
(*   pc     "build", "loop" or "done".                                      *)
(* Indices are the source's, from 0: pattern[i] of the source is            *)
(* pattern[i + 1] here.                                                     *)

MaxText == 5       \* text.size() <= MaxText
MaxPattern == 3    \* 1 <= pattern.size() <= MaxPattern

Alphabet == {65, 66}    \* 'A', 'B'

NotReturned == -2

CharAt(str, i) == str[i + 1]

\* the loop of buildDelta1, from index i on
RECURSIVE Delta1Loop(_, _, _)
Delta1Loop(pattern, delta1, i) ==
    IF i < Len(pattern)
    THEN Delta1Loop(pattern, [delta1 EXCEPT ![CharAt(pattern, i)] = i], i + 1)
    ELSE delta1

buildDelta1(pattern) == Delta1Loop(pattern, [c \in Alphabet |-> -1], 0)

\* the while loop of case 1: <<j, delta2>> once it has stopped
RECURSIVE BorderWalk(_, _, _, _, _)
BorderWalk(pattern, i, j, delta2, bpos) ==
    IF (j <= Len(pattern)) /\ (CharAt(pattern, i - 1) # CharAt(pattern, j - 1))
    THEN BorderWalk(pattern, i, bpos[j],
                    IF delta2[j] = 0 THEN [delta2 EXCEPT ![j] = j - i]
                    ELSE delta2,
                    bpos)
    ELSE <<j, delta2>>

\* the for loop of case 1: <<delta2, bpos>>
RECURSIVE Case1(_, _, _, _, _)
Case1(pattern, i, j, delta2, bpos) ==
    IF i > 0
    THEN LET w == BorderWalk(pattern, i, j, delta2, bpos)
         IN  Case1(pattern, i - 1, w[1] - 1, w[2],
                   [bpos EXCEPT ![i - 1] = w[1] - 1])
    ELSE <<delta2, bpos>>

\* the for loop of case 2
RECURSIVE Case2(_, _, _, _, _)
Case2(m, i, j, delta2, bpos) ==
    IF i <= m
    THEN Case2(m, i + 1, IF i = j THEN bpos[j] ELSE j,
               IF delta2[i] = 0 THEN [delta2 EXCEPT ![i] = j] ELSE delta2,
               bpos)
    ELSE delta2

buildDelta2(pattern) ==
    LET m == Len(pattern)
        c1 == Case1(pattern, m, m + 1, [i \in 0..m |-> 0],
                    [i \in 0..m |-> IF i = m THEN m + 1 ELSE 0])
    IN  Case2(m, 0, c1[2][0], c1[1], c1[2])

\* the inner while of search: the index j at which the comparison stops
RECURSIVE MatchDown(_, _, _, _)
MatchDown(text, pattern, start, j) ==
    IF (j >= 0) /\ (CharAt(pattern, j) = CharAt(text, start + j))
    THEN MatchDown(text, pattern, start, j - 1)
    ELSE j

\* the loop condition of search
LoopGuard(start, d) == start < d

SearchArgs(text, pattern) == [text |-> text, pattern |-> pattern]

SearchLocals(from, start, shift, out) ==
    [from |-> from, start |-> start, shift |-> shift, out |-> out]

Distance == Len(arrs.text) - Len(arrs.pattern)

\* auto delta1 = buildDelta1(pattern); auto delta2 = buildDelta2(pattern)
BuildTables ==
    /\ pc = "build"
    /\ heap' = [delta1 |-> buildDelta1(arrs.pattern),
                delta2 |-> buildDelta2(arrs.pattern)]
    /\ pc' = "loop"
    /\ UNCHANGED <<arrs, last, stmts>>

\* a pass of the while loop that finds the pattern at start
Found ==
    /\ pc = "loop"
    /\ LoopGuard(last.start, Distance)
    /\ MatchDown(arrs.text, arrs.pattern, last.start,
                 Len(arrs.pattern) - 1) < 0
    /\ last' = [last EXCEPT !.out = last.start]
    /\ stmts' = stmts + 1
    /\ pc' = "done"
    /\ UNCHANGED <<arrs, heap>>

\* a pass of the while loop that ends in a mismatch and shifts the pattern
Shift ==
    /\ pc = "loop"
    /\ LoopGuard(last.start, Distance)
    /\ LET j == MatchDown(arrs.text, arrs.pattern, last.start,
                          Len(arrs.pattern) - 1)
       IN  /\ j >= 0
           /\ LET s == Max(j - heap.delta1[CharAt(arrs.text, last.start + j)],
                           heap.delta2[j + 1])
              IN  last' = [last EXCEPT !.start = last.start + s, !.shift = s]
    /\ stmts' = stmts + 1
    /\ UNCHANGED <<arrs, heap, pc>>

\* the loop condition fails: return -1
NotFound ==
    /\ pc = "loop"
    /\ ~LoopGuard(last.start, Distance)
    /\ last' = [last EXCEPT !.out = -1]
    /\ pc' = "done"
    /\ UNCHANGED <<arrs, heap, stmts>>

Texts == SeqsUpTo(Alphabet, MaxText)

Patterns == SeqsUpTo(Alphabet, MaxPattern) \ {<<>>}

InitSearch ==
    /\ \E text \in Texts, pattern \in Patterns :
          arrs = SearchArgs(text, pattern)
    /\ \E start \in 0..MaxText :
          last = SearchLocals(start, start, 0, NotReturned)
    /\ heap = [delta1 |-> [c \in Alphabet |-> -1], delta2 |-> <<>>]
    /\ stmts = 0
    /\ pc = "build"

NextSearch == BuildTables \/ Found \/ Shift \/ NotFound

SpecSearch == InitSearch /\ [][NextSearch]_vars

(* What is asked of search. *)

OccursAt(i) ==
    /\ i >= 0
    /\ i + Len(arrs.pattern) <= Len(arrs.text)
    /\ \A q \in 1..Len(arrs.pattern) : arrs.text[i + q] = arrs.pattern[q]

OccurrencesFrom == {i \in last.from..Len(arrs.text) : OccursAt(i)}

SmallestOccurrence ==
    IF OccurrencesFrom = {} THEN -1
    ELSE CHOOSE i \in OccurrencesFrom : \A o \in OccurrencesFrom : i <= o

SearchResult == pc = "done" => last.out = SmallestOccurrence

PositiveShifts == (pc = "loop" /\ stmts > 0) => last.shift > 0

NeverSkips ==
    pc = "loop" => \A o \in OccurrencesFrom : o >= last.start

\* C18: for a non-empty pattern and 0 <= start, search returns the smallest
\* index i >= start at which pattern occurs in text, and -1 exactly when
\* there is none, also when the only occurrence ends at the last character
\* of text; every shift taken is positive and passes over no occurrence.
C18_Search == SearchResult /\ PositiveShifts /\ NeverSkips

====
